---- MODULE Spec2Model ----
(***************************************************************************)
(* TableDetectionModule of Parsr (server/src/processing/                   *)
(* TableDetectionModule/TableDetectionModule.ts): the stage that turns the *)
(* raw output of the table extractor into Table / TableRow / TableCell /   *)
(* SpannedTableCell elements attached to the pages of a Document.          *)
(*                                                                         *)
(* Indices keep the source's 0-based convention (colIndex, rowIndex, nCol, *)
(* cellRow); a TLA+ sequence s is read at s[index + 1].                    *)
(* Coordinates are integers counting HALVES of a unit, so that fractional  *)
(* geometry exists and Math.ceil is not the identity.                      *)
(* Text is a sequence of one-character strings, so that trim(), join(' ')  *)
(* and .length are computed rather than assumed.                           *)
(* A span the extractor left out (undefined) is the number 0; a key a raw   *)
(* descriptor lacks is a field its record lacks; undefined is Undefined.   *)
(***************************************************************************)
EXTENDS Integers, Sequences, FiniteSets, TLC

VARIABLES
    doc,          \* the Document: [pages |-> sequence of Page]
    pc,           \* position of main: "idle", "loop", "returned", "threw"
    configIndex,  \* 0-based index into options.runConfig of the next pass
    calls,        \* history: the configIndex of every extractor.readTables call of this invocation
    last,         \* history: outcome of the latest step of main
    invocation,   \* number of invocations of main started so far
    attached,     \* history: [pass, page, box] of every table this invocation attached
    tableData,    \* pure-function specifications: the raw table descriptor
    tableContent, \* pure-function specifications: the TableRow[] built / merged
    groups,       \* pure-function specifications: groupsToMerge of each row
    merged,       \* pure-function specifications: tableContent after joinCellsByContent
    stage         \* pure-function specifications: "input" or "done"

vars == <<doc, pc, configIndex, calls, last, invocation, attached, tableData, tableContent, groups, merged, stage>>

mainVars == <<doc, pc, configIndex, calls, last, invocation, attached>>
pureVars == <<tableData, tableContent, groups, merged, stage>>

----------------------------------------------------------------------------
(* Generic helpers *)

Undefined == [type |-> "undefined"]
Null == [type |-> "null"]

SetMin(S) == CHOOSE m \in S : \A n \in S : m <= n
SetMax(S) == CHOOSE m \in S : \A n \in S : m >= n

Range(s) == {s[i] : i \in DOMAIN s}

RECURSIVE Flatten(_)
Flatten(ss) == IF ss = <<>> THEN <<>> ELSE Head(ss) \o Flatten(Tail(ss))

\* Math.ceil of a coordinate counted in halves
Ceil(h) == (h + 1) \div 2

----------------------------------------------------------------------------
(* Geometry and element constructors (types/DocumentRepresentation) *)

BoundingBox(left, top, width, height) ==
    [left |-> left, top |-> top, width |-> width, height |-> height]

BoxRight(b) == b.left + b.width
BoxBottom(b) == b.top + b.height

\* Row boxes built from no cell are Infinity / NaN in the source
NoBox == [finite |-> FALSE]

Positive(n) == IF n > 0 THEN n ELSE 0

\* BoundingBox.getOverlap(box1, box2).box1OverlapProportion > 0.75
OverlapsMoreThanThreeQuarters(box1, box2) ==
    LET w == Positive(SetMin({BoxRight(box1), BoxRight(box2)}) - SetMax({box1.left, box2.left}))
        h == Positive(SetMin({BoxBottom(box1), BoxBottom(box2)}) - SetMax({box1.top, box2.top}))
        area1 == box1.width * box1.height
    IN  area1 > 0 /\ 4 * (w * h) > 3 * area1

IsTable(e) == e.type = "Table"
IsWord(e) == e.type = "Word"

\* all cells of a table, row by row
CellsOfTable(t) == Flatten([r \in DOMAIN t.content |-> t.content[r].content])

\* Page.getElementsOfType(Word): the page's words, nested ones included, in document order
WordsOfPage(page) ==
    Flatten([i \in DOMAIN page.elements |->
        IF IsWord(page.elements[i]) THEN <<page.elements[i]>>
        ELSE IF IsTable(page.elements[i])
             THEN LET cells == CellsOfTable(page.elements[i])
                  IN  Flatten([c \in DOMAIN cells |-> cells[c].content])
             ELSE <<>>])

\* Page.getElementsOfType(TableCell): every cell of every table of the page
TableCellsOfPage(page) ==
    Flatten([i \in DOMAIN page.elements |->
        IF IsTable(page.elements[i]) THEN CellsOfTable(page.elements[i]) ELSE <<>>])

\* Document.getElementsOfType(Table)
TablesOfDocument(d) ==
    Flatten([p \in DOMAIN d.pages |->
        SelectSeq(d.pages[p].elements, IsTable)])

----------------------------------------------------------------------------
(* createRows / createRowCells *)

\* cell.colSpan || 1
SpanOrOne(v) == IF v = 0 THEN 1 ELSE v

\* the positions with the direction taken from y instead of x
SpannedPositionsOfByRow(cell, colIndex, rowIndex) ==
    LET cs == SpanOrOne(cell.colSpan)
        rs == SpanOrOne(cell.rowSpan)
    IN  [k \in 1..(cs * rs - 1) |->
            [x |-> (k \div rs) + colIndex,
             y |-> (k % rs) + rowIndex,
             direction |-> IF (k % rs) > 0 THEN "top" ELSE "left"]]

\* the positions a cell pushes to spannedCells, in the order of the two forEach loops
SpannedPositionsOf(cell, colIndex, rowIndex) ==
    LET cs == SpanOrOne(cell.colSpan)
        rs == SpanOrOne(cell.rowSpan)
    IN  [k \in 1..(cs * rs - 1) |->
            [x |-> (k \div rs) + colIndex,
             y |-> (k % rs) + rowIndex,
             direction |-> IF (k \div rs) > 0 THEN "left" ELSE "top"]]

\* spannedCells.find(sc => sc.x === colIndex && sc.y === rowIndex)
FindSpannedCell(spannedCells, colIndex, rowIndex) ==
    LET hits == {i \in DOMAIN spannedCells :
                    spannedCells[i].x = colIndex /\ spannedCells[i].y = rowIndex}
    IN  IF hits = {} THEN Undefined ELSE spannedCells[SetMin(hits)]

\* row.splice(colIndex, 0, null)
SpliceNull(row, colIndex) ==
    LET at == IF colIndex > Len(row) THEN Len(row) ELSE colIndex
    IN  SubSeq(row, 1, at) \o <<Null>> \o SubSeq(row, at + 1, Len(row))

\* row[colIndex], undefined past the end
RowAt(row, colIndex) == IF colIndex < Len(row) THEN row[colIndex + 1] ELSE Undefined

wordsInCellBox(cellBounds, pageWords) ==
    SelectSeq(pageWords, LAMBDA w : OverlapsMoreThanThreeQuarters(w.box, cellBounds))

SpannedTableCell(box, direction, colIndex, rowIndex) ==
    [type |-> "SpannedTableCell", box |-> box, direction |-> direction,
     colspan |-> 0, rowspan |-> 0, content |-> <<>>,
     at |-> <<colIndex, rowIndex>>]

\* `at' is history: the (colIndex, rowIndex) of the loop iteration that pushed the cell
TableCell(cell, pageHeight, pageWords, colIndex, rowIndex) ==
    LET cellBounds == BoundingBox(cell.location.x, pageHeight - cell.location.y,
                                  cell.size.width, cell.size.height)
    IN  [type |-> "TableCell", box |-> cellBounds, direction |-> "none",
         colspan |-> cell.colSpan, rowspan |-> cell.rowSpan,
         content |-> wordsInCellBox(cellBounds, pageWords),
         at |-> <<colIndex, rowIndex>>]

\* the body of the for loop of createRowCells, from colIndex to cols.length - 1;
\* acc = [row, spannedCells, cells]
RECURSIVE RowCellsFrom(_, _, _, _, _, _, _)
RowCellsFrom(acc, colIndex, rowIndex, pageHeight, pageWords, cols, rows) ==
    IF colIndex >= Len(cols) THEN acc
    ELSE
      LET spannedCell == FindSpannedCell(acc.spannedCells, colIndex, rowIndex)
          cell == RowAt(acc.row, colIndex)
          next ==
            IF spannedCell # Undefined
            THEN LET x1 == cols[colIndex + 1][1]
                     x2 == cols[colIndex + 1][2]
                     y1 == pageHeight - rows[rowIndex + 1][1]
                     y2 == pageHeight - rows[rowIndex + 1][2]
                     box == BoundingBox(x1, y1, x2 - x1, y2 - y1)
                 IN  [row |-> IF Len(acc.row) < Len(cols)
                              THEN SpliceNull(acc.row, colIndex) ELSE acc.row,
                      spannedCells |-> acc.spannedCells,
                      cells |-> Append(acc.cells,
                                  SpannedTableCell(box, spannedCell.direction, colIndex, rowIndex))]
            ELSE IF cell # Undefined /\ cell # Null
                 THEN [row |-> acc.row,
                       spannedCells |-> acc.spannedCells
                                          \o SpannedPositionsOf(cell, colIndex, rowIndex),
                       cells |-> Append(acc.cells,
                                   TableCell(cell, pageHeight, pageWords, colIndex, rowIndex))]
                 ELSE acc
      IN  RowCellsFrom(next, colIndex + 1, rowIndex, pageHeight, pageWords, cols, rows)

\* returns [cells |-> TableCell[], spannedCells |-> the array after the pushes]
createRowCells(row, rowIndex, pageHeight, pageWords, spannedCells, cols, rows) ==
    LET r == RowCellsFrom([row |-> row, spannedCells |-> spannedCells, cells |-> <<>>],
                          0, rowIndex, pageHeight, pageWords, cols, rows)
    IN  [cells |-> r.cells, spannedCells |-> r.spannedCells]

\* new TableRow(tableCells, box) with the box of createRows
TableRow(tableCells) ==
    IF tableCells = <<>> THEN [type |-> "TableRow", content |-> tableCells, box |-> NoBox]
    ELSE
      LET boxes == {tableCells[i].box : i \in DOMAIN tableCells}
          maxRight == SetMax({BoxRight(b) : b \in boxes})
          minLeft == SetMin({b.left : b \in boxes})
          minTop == SetMin({b.top : b \in boxes})
          minBottom == SetMin({BoxBottom(b) : b \in boxes})
      IN  [type |-> "TableRow", content |-> tableCells,
           box |-> BoundingBox(minLeft, minTop, maxRight - minLeft, minBottom - minTop)]

\* tableData.cells.map(...) from rowIndex on; spannedCells is shared by all rows
RECURSIVE RowsFrom(_, _, _, _, _)
RowsFrom(td, pageHeight, pageWords, rowIndex, spannedCells) ==
    IF rowIndex >= Len(td.cells) THEN <<>>
    ELSE LET r == createRowCells(td.cells[rowIndex + 1], rowIndex, pageHeight,
                                 pageWords, spannedCells, td.cols, td.rows)
         IN  <<TableRow(r.cells)>>
                \o RowsFrom(td, pageHeight, pageWords, rowIndex + 1, r.spannedCells)

createRows(td, page) ==
    LET pageWords == WordsOfPage(page)
    IN  RowsFrom(td, page.box.height, pageWords, 0, <<>>)

----------------------------------------------------------------------------
(* Text *)

Space == " "

RECURSIVE TrimLeft(_)
TrimLeft(s) == IF s # <<>> /\ Head(s) = Space THEN TrimLeft(Tail(s)) ELSE s

RECURSIVE TrimRight(_)
TrimRight(s) ==
    IF s # <<>> /\ s[Len(s)] = Space THEN TrimRight(SubSeq(s, 1, Len(s) - 1)) ELSE s

\* String.prototype.trim
Trim(s) == TrimRight(TrimLeft(s))

\* Array.prototype.join(' ')
RECURSIVE JoinWithSpace(_)
JoinWithSpace(strs) ==
    IF strs = <<>> THEN <<>>
    ELSE IF Len(strs) = 1 THEN strs[1]
    ELSE strs[1] \o <<Space>> \o JoinWithSpace(Tail(strs))

\* TableCell.toString(): the texts of the cell's words, space-joined
CellToString(cell) == JoinWithSpace([i \in DOMAIN cell.content |-> cell.content[i].text])

----------------------------------------------------------------------------
(* joinCellsByContent / getMergeCandidateCellPositions *)

\* tableContent[nRow].content[nCol] is read for every entry of tableData: a missing
\* row or cell makes toString() throw a TypeError
MergeThrows(tc, data) ==
    \E nRow \in 0..(Len(data) - 1) :
        \/ nRow >= Len(tc)
        \/ Len(data[nRow + 1]) > Len(tc[nRow + 1].content)

\* the nCol pushed to mergeCandidateCells[nRow], ascending
CandidateCols(tc, data, nRow) ==
    LET differs(nCol) == CellToString(tc[nRow + 1].content[nCol + 1]) # data[nRow + 1][nCol + 1]
        F[n \in 0..Len(data[nRow + 1])] ==
            IF n = 0 THEN <<>>
            ELSE IF differs(n - 1) THEN Append(F[n - 1], n - 1) ELSE F[n - 1]
    IN  F[Len(data[nRow + 1])]

\* utils.groupConsecutiveNumbersInArray: the maximal runs of consecutive numbers
RECURSIVE groupConsecutiveNumbersInArray(_)
groupConsecutiveNumbersInArray(numbers) ==
    IF numbers = <<>> THEN <<>>
    ELSE LET rest == groupConsecutiveNumbersInArray(Tail(numbers))
         IN  IF rest # <<>> /\ Head(rest)[1] = Head(numbers) + 1
             THEN <<<<Head(numbers)>> \o Head(rest)>> \o Tail(rest)
             ELSE <<<<Head(numbers)>>>> \o rest

\* mergeCandidateCells[nRow] as returned; <<>> stands for a deleted key
getMergeCandidateCellPositions(tc, data, nRow) ==
    SelectSeq(groupConsecutiveNumbersInArray(CandidateCols(tc, data, nRow)),
              LAMBDA group : Len(group) > 1)

ExpectedTextInSubGroup(data, cellRow, cellSubGroup) ==
    Trim(JoinWithSpace([k \in DOMAIN cellSubGroup |->
                           Trim(data[cellRow + 1][cellSubGroup[k] + 1])]))

SubgroupText(tc, cellRow, cellSubGroup) ==
    LET content == tc[cellRow + 1].content
        picked == SelectSeq([k \in DOMAIN content |-> k - 1],
                            LAMBDA index : index \in Range(cellSubGroup))
    IN  Trim(JoinWithSpace([k \in DOMAIN picked |->
                               Trim(CellToString(content[picked[k] + 1]))]))

\* the subgroup restarts on an overshoot only
ResetSubGroupOnOvershoot(cellSubGroup, expectedText, subgroupText) ==
    IF Len(subgroupText) > Len(expectedText) THEN <<>> ELSE cellSubGroup

\* after a commit or an overshoot the subgroup restarts empty
ResetSubGroup(cellSubGroup, expectedText, subgroupText) ==
    IF Len(subgroupText) > Len(expectedText) \/ expectedText = subgroupText
    THEN <<>> ELSE cellSubGroup

\* the for loop over one cellColGroup, from i on; returns the groups it pushes
RECURSIVE ScanColGroup(_, _, _, _, _, _)
ScanColGroup(tc, data, cellRow, cellColGroup, i, cellSubGroup) ==
    IF i >= Len(cellColGroup) THEN <<>>
    ELSE
      LET expectedTextInSubGroup == ExpectedTextInSubGroup(data, cellRow, cellSubGroup)
          subgroupText == SubgroupText(tc, cellRow, cellSubGroup)
          pushed == IF expectedTextInSubGroup = subgroupText THEN <<cellSubGroup>> ELSE <<>>
          kept == ResetSubGroup(cellSubGroup, expectedTextInSubGroup, subgroupText)
          nextSubGroup == IF Len(cellColGroup) > i + 1
                          THEN Append(kept, cellColGroup[i + 2]) ELSE kept
      IN  pushed \o ScanColGroup(tc, data, cellRow, cellColGroup, i + 1, nextSubGroup)

\* groupsToMerge of row cellRow
groupsToMerge(tc, data, cellRow) ==
    LET colGroups == getMergeCandidateCellPositions(tc, data, cellRow)
    IN  Flatten([g \in DOMAIN colGroups |->
                    ScanColGroup(tc, data, cellRow, colGroups[g], 0, <<colGroups[g][1]>>)])

\* the union of the boxes of some cells
UnionBox(cells) ==
    LET left == SetMin({cells[i].box.left : i \in DOMAIN cells})
        top == SetMin({cells[i].box.top : i \in DOMAIN cells})
        right == SetMax({BoxRight(cells[i].box) : i \in DOMAIN cells})
        bottom == SetMax({BoxBottom(cells[i].box) : i \in DOMAIN cells})
    IN  BoundingBox(left, top, right - left, bottom - top)

\* TableRow.mergeCells: each group becomes one cell, the others are unchanged
mergeCells(row, groupsOfRow) ==
    LET content == row.content
        groupOf(index) == {g \in DOMAIN groupsOfRow : index \in Range(groupsOfRow[g])}
        cellsOf(g) == SelectSeq([k \in DOMAIN content |-> k - 1],
                                LAMBDA index : index \in Range(groupsOfRow[g]))
        mergedCell(g) ==
            LET members == [k \in DOMAIN cellsOf(g) |-> content[cellsOf(g)[k] + 1]]
            IN  [members[1] EXCEPT
                    !.box = UnionBox(members),
                    !.content = Flatten([k \in DOMAIN members |-> members[k].content])]
        out[n \in 0..Len(content)] ==
            IF n = 0 THEN <<>>
            ELSE LET index == n - 1
                     gs == groupOf(index)
                 IN  IF gs = {} THEN Append(out[n - 1], content[n])
                     ELSE IF index = cellsOf(SetMin(gs))[1]
                          THEN Append(out[n - 1], mergedCell(SetMin(gs)))
                          ELSE out[n - 1]
    IN  [row EXCEPT !.content = out[Len(content)]]

joinCellsByContent(tc, data) ==
    [r \in DOMAIN tc |->
        IF r <= Len(data) /\ groupsToMerge(tc, data, r - 1) # <<>>
        THEN mergeCells(tc[r], groupsToMerge(tc, data, r - 1))
        ELSE tc[r]]

----------------------------------------------------------------------------
(* isFalseTable / existAdjacentRow / existPreviousRow *)

\* a row built from no cell has top Infinity and height NaN: Math.ceil of its top
\* or bottom is === to the Math.ceil of no row's top or bottom
HasBox(row) == row.box # NoBox

existPreviousRow(rowIndex, table) ==
    LET row == table.content[rowIndex + 1]
    IN  /\ HasBox(row)
        /\ \E k \in DOMAIN table.content :
              /\ HasBox(table.content[k])
              /\ Ceil(table.content[k].box.top + table.content[k].box.height)
                    = Ceil(row.box.top)

existAdjacentRow(rowIndex, table) ==
    IF rowIndex + 1 = Len(table.content) THEN existPreviousRow(rowIndex, table)
    ELSE LET row == table.content[rowIndex + 1]
         IN  /\ HasBox(row)
             /\ \E k \in DOMAIN table.content :
                   /\ HasBox(table.content[k])
                   /\ Ceil(table.content[k].box.top) = Ceil(row.box.top + row.box.height)

\* the heuristic without the test on the number of rows
isFalseTableByAdjacency(table) ==
    \E index \in 0..(Len(table.content) - 1) : ~existAdjacentRow(index, table)

isFalseTable(table) ==
    LET isFalse == \E index \in 0..(Len(table.content) - 1) : ~existAdjacentRow(index, table)
        only1Row == Len(table.content) = 1
    IN  only1Row \/ isFalse

----------------------------------------------------------------------------
(* Inputs of the pure-function specifications *)

MaxCols == 2
MaxMergeCols == 3

Char(c) == <<c>>

Word(id, box, text) == [type |-> "Word", id |-> id, box |-> box, text |-> text]

\* a page of 8 x 8 units holding two words: one inside the first grid cell, one
\* lying across the border between the cells of the second row
GridPage ==
    [box |-> BoundingBox(0, 0, 16, 16),
     elements |-> <<Word(1, BoundingBox(1, 1, 2, 2), Char("a")),
                    Word(2, BoundingBox(3, 5, 2, 2), Char("b"))>>]

GridCols(nCols) == [c \in 1..nCols |-> <<4 * (c - 1), 4 * c>>]
GridRows(nRows) == [r \in 1..nRows |-> <<16 - 4 * (r - 1), 16 - 4 * r>>]

\* (colSpan, rowSpan) of a raw cell; 0 is a span the extractor left out
RawSpans == {<<0, 0>>, <<2, 1>>, <<1, 2>>, <<2, 2>>}

\* the raw cell with spans sp at index j of the raw row r (both from 1)
RawCell(j, r, sp) ==
    [location |-> [x |-> 4 * (j - 1), y |-> 16 - 4 * (r - 1)],
     size |-> [width |-> 4, height |-> 4],
     colSpan |-> sp[1], rowSpan |-> sp[2]]

\* what stands at an index of a raw row: no cell (null), or a cell with these spans
RawKinds == {<<>>} \cup RawSpans

\* the raw row r (from 1) whose entries are of the kinds sp
RawRow(sp, r) == [j \in DOMAIN sp |-> IF sp[j] = <<>> THEN Null ELSE RawCell(j, r, sp[j])]

\* the raw descriptor of a grid of nCols columns whose rows are of the kinds sps
RawGrid(nCols, sps) ==
    [cols |-> GridCols(nCols), rows |-> GridRows(Len(sps)),
     cells |-> [r \in DOMAIN sps |-> RawRow(sps[r], r)]]

\* the number of rows of a raw grid
GridRowCounts == {1, 2}

\* the words a reconstructed cell may hold before the merge
MergeCellWords == {<<>>, <<Char("a")>>, <<Char("b")>>}

\* the expected texts of tableData.content
ExpectedTexts ==
    {<<>>, <<"a">>, <<"b">>, <<"a", " ", "b">>, <<"a", " ">>}

MergeCell(nCol, texts) ==
    [type |-> "TableCell", box |-> BoundingBox(4 * nCol, 0, 4, 4), direction |-> "none",
     colspan |-> 0, rowspan |-> 0,
     content |-> [k \in DOMAIN texts |->
                     Word(10 * nCol + k, BoundingBox(4 * nCol + 1, 1, 2, 2), texts[k])],
     at |-> <<nCol, 0>>]

MergeInputs ==
    UNION {
        {[tableContent |-> <<TableRow([c \in 1..n |-> MergeCell(c - 1, actual[c])])>>,
          content |-> <<expected>>] :
            actual \in [1..n -> MergeCellWords], expected \in [1..n -> ExpectedTexts]}
        : n \in 2..MaxMergeCols}

----------------------------------------------------------------------------
(* Specification of createRows over raw grids *)

EmptyDoc == [pages |-> <<>>]

MainIdle ==
    /\ doc = EmptyDoc
    /\ pc = "idle"
    /\ configIndex = 0
    /\ calls = <<>>
    /\ last = "none"
    /\ invocation = 0
    /\ attached = <<>>

InitRows ==
    /\ MainIdle
    /\ \E nCols \in 1..MaxCols, nRows \in GridRowCounts :
          \E sps \in [1..nRows -> UNION {[1..k -> RawKinds] : k \in 0..nCols}] :
              tableData = RawGrid(nCols, sps)
    /\ tableContent = <<>>
    /\ groups = <<>>
    /\ merged = <<>>
    /\ stage = "input"

CreateRows ==
    /\ stage = "input"
    /\ tableContent' = createRows(tableData, GridPage)
    /\ stage' = "done"
    /\ UNCHANGED <<tableData, groups, merged>>
    /\ UNCHANGED mainVars

NextRows == CreateRows

SpecRows == InitRows /\ [][NextRows]_vars

----------------------------------------------------------------------------
(* Specification of joinCellsByContent over one row of reconstructed cells *)

InitMerge ==
    /\ MainIdle
    /\ \E input \in MergeInputs :
          /\ tableData = [content |-> input.content, flavor |-> "stream"]
          /\ tableContent = input.tableContent
    /\ groups = <<>>
    /\ merged = <<>>
    /\ stage = "input"

JoinCells ==
    /\ stage = "input"
    /\ ~MergeThrows(tableContent, tableData.content)
    /\ groups' = [r \in DOMAIN tableContent |->
                    groupsToMerge(tableContent, tableData.content, r - 1)]
    /\ merged' = joinCellsByContent(tableContent, tableData.content)
    /\ stage' = "done"
    /\ UNCHANGED <<tableData, tableContent>>
    /\ UNCHANGED mainVars

NextMerge == JoinCells

SpecMerge == InitMerge /\ [][NextMerge]_vars

----------------------------------------------------------------------------
(* main / addTables / addTable / removeWordsUsedInCells *)

NumPasses == 2
MaxInvocations == 2

\* the raw descriptor has the key
Has(td, key) == key \in DOMAIN td

\* createTable; the page's height flips the y of the extractor
createTable(td, pageHeight) ==
    [type |-> "Table", content |-> <<>>,
     box |-> BoundingBox(td.location.x, pageHeight - td.location.y,
                         td.size.width, td.size.height)]

\* what makes addTable throw a TypeError: no such page, a descriptor without its
\* geometry, or joinCellsByContent reading a cell the row does not hold
addTableThrows(td, page) ==
    \/ page = Undefined
    \/ ~Has(td, "location")
    \/ ~Has(td, "size")
    \/ /\ Has(td, "content") /\ td.flavor = "stream"
       /\ MergeThrows(createRows(td, page), td.content)

\* the candidate Table of addTable, before isFalseTable decides
CandidateTable(td, page) ==
    LET table == createTable(td, page.box.height)
        rows == createRows(td, page)
    IN  [table EXCEPT !.content =
            IF Has(td, "content") /\ td.flavor = "stream"
            THEN joinCellsByContent(rows, td.content) ELSE rows]

\* addTable: the page afterwards
addTable(td, page) ==
    LET table == CandidateTable(td, page)
    IN  IF ~isFalseTable(table)
        THEN [page EXCEPT !.elements = Append(page.elements, table)]
        ELSE page

\* doc.pages[pageData.page - 1]
PageOf(d, pageData) ==
    IF pageData.page \in DOMAIN d.pages THEN d.pages[pageData.page] ELSE Undefined

\* the (page, table) pairs of tablesData in the order of the two map calls
TableItems(tablesData) ==
    Flatten([i \in DOMAIN tablesData |->
        [j \in DOMAIN tablesData[i].tables |->
            [page |-> tablesData[i].page, table |-> tablesData[i].tables[j]]]])

\* addTables from item k on: [doc, threw], the document as the exception leaves it
RECURSIVE AddTablesFrom(_, _, _)
AddTablesFrom(d, items, k) ==
    IF k > Len(items) THEN [doc |-> d, threw |-> FALSE]
    ELSE IF addTableThrows(items[k].table, PageOf(d, items[k]))
    THEN [doc |-> d, threw |-> TRUE]
    ELSE AddTablesFrom(
            [d EXCEPT !.pages[items[k].page] = addTable(items[k].table, d.pages[items[k].page])],
            items, k + 1)

addTables(tablesData, d) == AddTablesFrom(d, TableItems(tablesData), 1)

\* the ids collected once, from the cells of the first page
removeWordsUsedInFirstPageCells(d) ==
    [d EXCEPT !.pages = [p \in DOMAIN d.pages |->
        LET page == d.pages[p]
            cells == TableCellsOfPage(d.pages[1])
            cellWordsIds == {w.id : w \in Range(Flatten(
                                [c \in DOMAIN cells |-> cells[c].content]))}
        IN  [page EXCEPT !.elements =
                SelectSeq(page.elements,
                          LAMBDA element :
                              \/ (IsWord(element) /\ element.id \notin cellWordsIds)
                              \/ ~IsWord(element))]]]

removeWordsUsedInCells(d) ==
    [d EXCEPT !.pages = [p \in DOMAIN d.pages |->
        LET page == d.pages[p]
            cells == TableCellsOfPage(page)
            cellWordsIds == {w.id : w \in Range(Flatten(
                                [c \in DOMAIN cells |-> cells[c].content]))}
        IN  [page EXCEPT !.elements =
                SelectSeq(page.elements,
                          LAMBDA element :
                              \/ (IsWord(element) /\ element.id \notin cellWordsIds)
                              \/ ~IsWord(element))]]]

\* doc.getElementsOfType(Table).length !== 0
HasTables(d) == TablesOfDocument(d) # <<>>

\* the history of the tables the passes of this invocation attached
Attached(before, after, pass) ==
    Flatten([p \in DOMAIN after.pages |->
        LET old == SelectSeq(before.pages[p].elements, IsTable)
            new == SelectSeq(after.pages[p].elements, IsTable)
        IN  [k \in 1..(Len(new) - Len(old)) |->
                [pass |-> pass, page |-> p, box |-> new[Len(old) + k].box]]])

----------------------------------------------------------------------------
(* Inputs of main: the document and what the extractor may answer *)

\* three words per page: two inside the cells of the first row of the grid below, one
\* lying across the border between the cells of the second row
PageWords(p) ==
    <<Word(10 * p + 1, BoundingBox(1, 1, 2, 2), Char("a")),
      Word(10 * p + 2, BoundingBox(5, 1, 2, 2), Char("b")),
      Word(10 * p + 3, BoundingBox(3, 5, 2, 2), Char("c"))>>

InitialDoc ==
    [pages |-> [p \in 1..2 |-> [box |-> BoundingBox(0, 0, 16, 16), elements |-> PageWords(p)]]]

\* a descriptor of two columns whose rows lie at the [y1, y2] of rowYs and whose cells
\* fill the grid
Descriptor(rowYs, flavor) ==
    [location |-> [x |-> 0, y |-> rowYs[1][1]],
     size |-> [width |-> 8, height |-> rowYs[1][1] - rowYs[Len(rowYs)][2]],
     cols |-> GridCols(2),
     rows |-> rowYs,
     cells |-> [r \in DOMAIN rowYs |->
                  [c \in 1..2 |->
                      [location |-> [x |-> 4 * (c - 1), y |-> rowYs[r][1]],
                       size |-> [width |-> 4, height |-> rowYs[r][1] - rowYs[r][2]],
                       colSpan |-> 0, rowSpan |-> 0]]],
     flavor |-> flavor]

\* the record td with the key and its value added
With(td, key, value) ==
    [k \in DOMAIN td \cup {key} |-> IF k = key THEN value ELSE td[k]]

\* the record td without the keys
Without(td, keys) == [k \in DOMAIN td \ keys |-> td[k]]

\* two rows of 2 units, 1 unit apart
TwoRowsApart == Descriptor(<<<<16, 12>>, <<10, 6>>>>, "lattice")
\* one row of 2 units
OneRow == Descriptor(<<<<16, 12>>>>, "lattice")
\* one row from 0.5 to 1: Math.ceil of its top and of its bottom agree
OneThinRow == Descriptor(<<<<15, 14>>>>, "lattice")
\* two such rows, 3.5 units apart
TwoThinRows == Descriptor(<<<<15, 14>>, <<7, 6>>>>, "lattice")
\* two rows of 2 units, the second below the first, found by the stream flavor, with
\* the text the extractor expects: "a b" in the first cell
StreamRows ==
    With(Descriptor(<<<<16, 12>>, <<12, 8>>>>, "stream"), "content",
         <<<<<<"a", " ", "b">>, <<>>>>, <<<<>>, <<>>>>>>)
\* a descriptor without location and size
NoGeometry == Without(TwoRowsApart, {"location", "size"})

Descriptors ==
    {StreamRows, TwoRowsApart, OneRow, OneThinRow, TwoThinRows, NoGeometry}

\* the parsed stdout: one page with one or two tables
Payloads ==
    {<<[page |-> p, tables |-> <<t>>]>> : p \in 1..2, t \in Descriptors}
    \cup {<<[page |-> p, tables |-> <<t, u>>]>> : p \in 1..2, t \in Descriptors, u \in Descriptors}

----------------------------------------------------------------------------
(* Specification of main *)

PureIdle ==
    /\ tableData = <<>>
    /\ tableContent = <<>>
    /\ groups = <<>>
    /\ merged = <<>>
    /\ stage = "none"

Init ==
    /\ doc = InitialDoc
    /\ pc = "idle"
    /\ configIndex = 0
    /\ calls = <<>>
    /\ attached = <<>>
    /\ last = "none"
    /\ invocation = 0
    /\ PureIdle

\* a call of main on the document as the calls before left it
Invoked ==
    /\ pc # "loop"
    /\ invocation < MaxInvocations
    /\ invocation' = invocation + 1
    /\ calls' = <<>>
    /\ attached' = <<>>
    /\ configIndex' = 0

\* the input file is missing or is no PDF: main returns the document
MainNoInput ==
    /\ Invoked
    /\ pc' = "returned"
    /\ last' = "no-input"
    /\ UNCHANGED doc
    /\ UNCHANGED pureVars

\* the document already has tables: main returns the document
MainHasTables ==
    /\ Invoked
    /\ HasTables(doc)
    /\ pc' = "returned"
    /\ last' = "has-tables"
    /\ UNCHANGED doc
    /\ UNCHANGED pureVars

\* main reaches the loop without looking for tables
MainStartWithoutGuard ==
    /\ Invoked
    /\ pc' = "loop"
    /\ last' = "started"
    /\ UNCHANGED doc
    /\ UNCHANGED pureVars

\* main reaches the loop over options.runConfig
MainStart ==
    /\ Invoked
    /\ ~HasTables(doc)
    /\ pc' = "loop"
    /\ last' = "started"
    /\ UNCHANGED doc
    /\ UNCHANGED pureVars

\* extractor.readTables is called for runConfig[configIndex]
ReadTables ==
    /\ pc = "loop"
    /\ calls' = Append(calls, configIndex)

\* the end of one iteration of the loop
NextPass ==
    /\ configIndex' = configIndex + 1
    /\ pc' = IF configIndex + 1 < NumPasses THEN "loop" ELSE "returned"

\* status is not 0 and main returns
PassFailedReturns ==
    /\ ReadTables
    /\ pc' = "returned"
    /\ last' = "failed"
    /\ UNCHANGED <<doc, attached, configIndex, invocation>>
    /\ UNCHANGED pureVars

\* status is not 0
PassFailed ==
    /\ ReadTables
    /\ NextPass
    /\ last' = "failed"
    /\ UNCHANGED <<doc, attached, invocation>>
    /\ UNCHANGED pureVars

\* status is 0 and JSON.parse throws on stdout
PassUnparseable ==
    /\ ReadTables
    /\ pc' = "threw"
    /\ last' = "unparseable"
    /\ UNCHANGED <<doc, attached, configIndex, invocation>>
    /\ UNCHANGED pureVars

\* status is 0 and addTables throws on a descriptor
PassMalformed ==
    /\ ReadTables
    /\ \E tablesData \in Payloads :
          LET added == addTables(tablesData, doc)
          IN  /\ added.threw
              /\ doc' = added.doc
    /\ attached' = attached \o Attached(doc, doc', configIndex)
    /\ pc' = "threw"
    /\ last' = "malformed"
    /\ UNCHANGED <<configIndex, invocation>>
    /\ UNCHANGED pureVars

\* the pass looks for tables again and is skipped when the document has some
PassOkUnlessTables ==
    IF HasTables(doc)
    THEN /\ pc = "loop"
         /\ NextPass
         /\ last' = "has-tables"
         /\ UNCHANGED <<doc, calls, attached, invocation>>
         /\ UNCHANGED pureVars
    ELSE /\ ReadTables
         /\ \E tablesData \in Payloads :
               LET added == addTables(tablesData, doc)
               IN  /\ ~added.threw
                   /\ doc' = removeWordsUsedInCells(added.doc)
         /\ attached' = attached \o Attached(doc, doc', configIndex)
         /\ NextPass
         /\ last' = "ok"
         /\ UNCHANGED invocation
         /\ UNCHANGED pureVars

\* status is 0: the tables are added and the words of their cells removed
PassOk ==
    /\ ReadTables
    /\ \E tablesData \in Payloads :
          LET added == addTables(tablesData, doc)
          IN  /\ ~added.threw
              /\ doc' = removeWordsUsedInCells(added.doc)
    /\ attached' = attached \o Attached(doc, doc', configIndex)
    /\ NextPass
    /\ last' = "ok"
    /\ UNCHANGED invocation
    /\ UNCHANGED pureVars

Next ==
    \/ MainNoInput
    \/ MainHasTables
    \/ MainStart
    \/ PassFailed
    \/ PassUnparseable
    \/ PassMalformed
    \/ PassOk

Spec == Init /\ [][Next]_vars

----------------------------------------------------------------------------
(* Specification of addTable over the row geometry of one candidate *)

MaxTableRows == 2

\* the [y1, y2] a row may have: 2 units high at 0, 2 and 3 units from the top of the
\* page, and half a unit high at 0.5 and at 4.5
RowYs == {<<16, 12>>, <<12, 8>>, <<10, 6>>, <<15, 14>>, <<7, 6>>}

\* the descriptor whose rows lie at ys; the rows of holes hold null cells only
HollowDescriptor(ys, holes) ==
    [Descriptor(ys, "lattice") EXCEPT
        !.cells = [r \in DOMAIN ys |->
                      IF holes[r] THEN <<Null, Null>> ELSE @[r]]]

InitTable ==
    /\ doc = InitialDoc
    /\ pc = "idle"
    /\ configIndex = 0
    /\ calls = <<>>
    /\ attached = <<>>
    /\ last = "none"
    /\ invocation = 0
    /\ \E n \in 1..MaxTableRows :
          \E ys \in [1..n -> RowYs], holes \in [1..n -> BOOLEAN] :
              tableData = HollowDescriptor(ys, holes)
    /\ tableContent = <<>>
    /\ groups = <<>>
    /\ merged = <<>>
    /\ stage = "input"

\* addTable(tableData, doc.pages[0]); tableContent keeps the rows of the candidate
AddTable ==
    /\ stage = "input"
    /\ ~addTableThrows(tableData, doc.pages[1])
    /\ doc' = [doc EXCEPT !.pages[1] = addTable(tableData, doc.pages[1])]
    /\ tableContent' = CandidateTable(tableData, doc.pages[1]).content
    /\ stage' = "done"
    /\ UNCHANGED <<pc, configIndex, calls, attached, last, invocation>>
    /\ UNCHANGED <<tableData, groups, merged>>

NextTable == AddTable

SpecTable == InitTable /\ [][NextTable]_vars

----------------------------------------------------------------------------
(* Properties of createRows (specification SpecRows) *)

NumCols == Len(tableData.cols)
NumRows == Len(tableData.cells)

\* the cells emitted for grid position (c, r)
EmittedAt(c, r) ==
    {k \in DOMAIN tableContent[r + 1].content : tableContent[r + 1].content[k].at = <<c, r>>}

\* the raw cells createRowCells turned into a TableCell
ProcessedCells ==
    {cell \in UNION {Range(tableContent[r].content) : r \in DOMAIN tableContent} :
        cell.type = "TableCell"}

\* the in-grid positions, other than its own, that the spans of cell cover
SpanOf(cell) ==
    {p \in (0..(NumCols - 1)) \X (0..(NumRows - 1)) :
        /\ p # cell.at
        /\ p[1] >= cell.at[1] /\ p[1] < cell.at[1] + SpanOrOne(cell.colspan)
        /\ p[2] >= cell.at[2] /\ p[2] < cell.at[2] + SpanOrOne(cell.rowspan)}

\* 'left' when the position is to the right of the cell (dx > 0), 'top' otherwise
DirectionFrom(cell, p) == IF p[1] > cell.at[1] THEN "left" ELSE "top"

RowMajorBefore(a, b) == a[2] < b[2] \/ (a[2] = b[2] /\ a[1] <= b[1])

\* the first cell, in scanning order, whose spans cover p
FirstCovering(p) ==
    CHOOSE cell \in ProcessedCells :
        /\ p \in SpanOf(cell)
        /\ \A other \in ProcessedCells : p \in SpanOf(other) => RowMajorBefore(cell.at, other.at)

IsSpannedAt(p, direction) ==
    /\ Cardinality(EmittedAt(p[1], p[2])) = 1
    /\ \A k \in EmittedAt(p[1], p[2]) :
          LET e == tableContent[p[2] + 1].content[k]
          IN  /\ e.type = "SpannedTableCell"
              /\ e.content = <<>>
              /\ e.direction = direction

\* C1: every grid position (col, row) is covered by exactly one emitted element, a
\* TableCell or a SpannedTableCell, and each row holds exactly |cols| elements
C1_GridCoveredExactlyOnce ==
    stage = "done" =>
        \A r \in 0..(NumRows - 1) :
            /\ Len(tableContent[r + 1].content) = NumCols
            /\ \A c \in 0..(NumCols - 1) : Cardinality(EmittedAt(c, r)) = 1

\* C9 as stated: every in-grid position in the span of a cell holds a SpannedTableCell
\* without content whose direction is 'left' when dx > 0 and 'top' otherwise, dx
\* counted from that cell
C9_SpannedDirectionOfEveryCell ==
    stage = "done" =>
        \A cell \in ProcessedCells : \A p \in SpanOf(cell) :
            IsSpannedAt(p, DirectionFrom(cell, p))

\* C9 amended: every in-grid position in the span of a cell that createRowCells turned
\* into a TableCell holds exactly one SpannedTableCell without content; its direction
\* is 'left' when dx > 0 and 'top' otherwise, dx counted from the first cell in scanning
\* order whose span covers the position
C9_SpannedDirectionOfFirstCell ==
    stage = "done" =>
        \A cell \in ProcessedCells : \A p \in SpanOf(cell) :
            IsSpannedAt(p, DirectionFrom(FirstCovering(p), p))

\* a cell with colSpan 2 and rowSpan 2 whose three spanned positions are in the grid
C9_Witness ==
    /\ stage = "done"
    /\ \E cell \in ProcessedCells :
          /\ cell.colspan = 2 /\ cell.rowspan = 2
          /\ Cardinality(SpanOf(cell)) = 3
          /\ IsSpannedAt(<<cell.at[1] + 1, cell.at[2]>>, "left")
          /\ IsSpannedAt(<<cell.at[1], cell.at[2] + 1>>, "top")
          /\ IsSpannedAt(<<cell.at[1] + 1, cell.at[2] + 1>>, "left")

----------------------------------------------------------------------------
(* Properties of joinCellsByContent (specification SpecMerge) *)

ActualText(r, c) == CellToString(tableContent[r + 1].content[c + 1])
ExpectedText(r, c) == tableData.content[r + 1][c + 1]

\* the columns of row r whose cell text differs from the expected text
Mismatches(r) ==
    {c \in 0..(Len(tableData.content[r + 1]) - 1) : ActualText(r, c) # ExpectedText(r, c)}

\* the maximal runs lo..hi of at least two consecutive mismatching columns
RunsOf(r) ==
    {run \in Mismatches(r) \X Mismatches(r) :
        /\ run[1] < run[2]
        /\ \A c \in run[1]..run[2] : c \in Mismatches(r)
        /\ (run[1] - 1) \notin Mismatches(r)
        /\ (run[2] + 1) \notin Mismatches(r)}

ExpectedJoined(r, s, e) ==
    Trim(JoinWithSpace([k \in 1..(e - s + 1) |-> Trim(ExpectedText(r, s + k - 1))]))

ActualJoined(r, s, e) ==
    Trim(JoinWithSpace([k \in 1..(e - s + 1) |-> Trim(ActualText(r, s + k - 1))]))

Matches(r, s, e) == ExpectedJoined(r, s, e) = ActualJoined(r, s, e)
Overshoots(r, s, e) == Len(ActualJoined(r, s, e)) > Len(ExpectedJoined(r, s, e))

\* the columns at which a subgroup started at s ends: by a commit or by being abandoned
EndsOf(r, s, hi) == {e \in s..hi : Matches(r, s, e) \/ Overshoots(r, s, e)}

\* the columns at which the scan of the run ending at hi starts a subgroup, from s on
RECURSIVE StartsFrom(_, _, _)
StartsFrom(r, s, hi) ==
    {s} \cup (IF EndsOf(r, s, hi) # {} /\ SetMin(EndsOf(r, s, hi)) < hi
              THEN StartsFrom(r, SetMin(EndsOf(r, s, hi)) + 1, hi) ELSE {})

\* the subgroups the description commits for row r, as sets of columns
CommittedAsDescribed(r) ==
    UNION {
        {s..SetMin(EndsOf(r, s, run[2])) :
            s \in {t \in StartsFrom(r, run[1], run[2]) :
                      /\ EndsOf(r, t, run[2]) # {}
                      /\ Matches(r, t, SetMin(EndsOf(r, t, run[2])))}}
        : run \in RunsOf(r)}

IsConsecutive(group) ==
    /\ group # <<>>
    /\ \A k \in 1..(Len(group) - 1) : group[k + 1] = group[k] + 1

\* C10: the groups committed for a row are those of the left-to-right scan of each
\* maximal run of at least two mismatching columns (commit on equal joined texts,
\* abandon when the actual text is longer, extend otherwise); they are pairwise
\* disjoint sets of consecutive columns, and a row without mismatch gets none
C10_MergeGroupsOfGreedyScan ==
    stage = "done" =>
        \A r \in 0..(Len(groups) - 1) :
            LET gs == groups[r + 1]
            IN  /\ {Range(gs[k]) : k \in DOMAIN gs} = CommittedAsDescribed(r)
                /\ \A k \in DOMAIN gs : IsConsecutive(gs[k])
                /\ \A k, l \in DOMAIN gs : k # l => Range(gs[k]) \cap Range(gs[l]) = {}
                /\ (Mismatches(r) = {} => gs = <<>>)

\* a row where the scan commits a group of two cells, and one where it abandons a
\* subgroup and commits the next
C10_Witness ==
    /\ stage = "done"
    /\ \E k \in DOMAIN groups[1] : Len(groups[1][k]) >= 2
    /\ Len(merged[1].content) < Len(tableContent[1].content)

----------------------------------------------------------------------------
(* Properties of isFalseTable (specification SpecTable) *)

TablesOfPage(page) == SelectSeq(page.elements, IsTable)

AttachedTables == UNION {Range(TablesOfPage(doc.pages[p])) : p \in DOMAIN doc.pages}

RowCeilTop(row) == Ceil(row.box.top)
RowCeilBottom(row) == Ceil(row.box.top + row.box.height)

\* row r (from 1) of the table has a neighbour that is another row of the table
HasOtherAdjacentRow(table, r) ==
    /\ HasBox(table.content[r])
    /\ \E k \in DOMAIN table.content :
          /\ k # r
          /\ HasBox(table.content[k])
          /\ IF r < Len(table.content)
             THEN RowCeilTop(table.content[k]) = RowCeilBottom(table.content[r])
             ELSE RowCeilBottom(table.content[k]) = RowCeilTop(table.content[r])

\* C7: in every attached table every row has a vertically adjacent neighbour that is
\* another row of the table (a candidate with a row that has none is not attached)
C7_EveryRowHasAnotherAdjacentRow ==
    \A table \in AttachedTables :
        \A r \in DOMAIN table.content : HasOtherAdjacentRow(table, r)

\* C8: no page holds a Table of exactly one row
C8_NoTableOfOneRow ==
    \A table \in AttachedTables : Len(table.content) # 1

\* a candidate of one row whose Math.ceil of top and bottom agree went through addTable
C8_Witness ==
    /\ stage = "done"
    /\ Len(tableContent) = 1
    /\ HasBox(tableContent[1])
    /\ RowCeilTop(tableContent[1]) = RowCeilBottom(tableContent[1])
    /\ AttachedTables = {}

----------------------------------------------------------------------------
(* Properties of main (specification Spec) *)

TopLevelWordIds(page) == {e.id : e \in {x \in Range(page.elements) : IsWord(x)}}

CellWordIds(page) ==
    UNION {{w.id : w \in Range(cell.content)} : cell \in Range(TableCellsOfPage(page))}

\* C2: a malformed payload (stdout that does not parse, a descriptor without its
\* geometry) lets no exception leave main, and every later pass is still run
C2_MalformedPassIsConfined ==
    /\ last \in {"unparseable", "malformed"} => pc # "threw"
    /\ (pc \in {"returned", "threw"} /\ calls # <<>>) => Len(calls) = NumPasses

\* C3: after every successful pass, on every page no id of a word held by a cell of
\* a table of the page is the id of a top-level element of the page
C3_NoCellWordAtTopLevel ==
    last = "ok" =>
        \A p \in DOMAIN doc.pages :
            TopLevelWordIds(doc.pages[p]) \cap CellWordIds(doc.pages[p]) = {}

\* after a successful pass a page holds a table with words in its cells and still a
\* word of its own
C3_Witness ==
    /\ last = "ok"
    /\ \E p \in DOMAIN doc.pages :
          /\ CellWordIds(doc.pages[p]) # {}
          /\ TopLevelWordIds(doc.pages[p]) # {}
          /\ TopLevelWordIds(doc.pages[p]) # TopLevelWordIds(InitialDoc.pages[p])

InOrder(s) == s = [i \in 1..Len(s) |-> i - 1]

\* C4: a pass whose extractor call fails changes nothing in the document and main
\* goes on with the next pass; the extractor is called once per configured pass, in
\* the order of the configuration
C4_FailedPassIsSkipped ==
    /\ [][(last' = "failed" /\ calls' # calls) =>
            /\ doc' = doc
            /\ attached' = attached
            /\ configIndex' = configIndex + 1
            /\ pc' = IF configIndex' < NumPasses THEN "loop" ELSE "returned"]_vars
    /\ [](/\ InOrder(calls)
          /\ pc = "loop" => (Len(calls) = configIndex /\ configIndex < NumPasses)
          /\ (pc = "returned" /\ last \in {"ok", "failed"}) => Len(calls) = NumPasses)

\* the first pass failed and main is about to call the extractor for the second
C4_Witness ==
    /\ last = "failed"
    /\ pc = "loop"
    /\ calls = <<0>>
    /\ configIndex = 1
    /\ doc = InitialDoc

\* C5: the guard on existing tables is evaluated once per invocation, before any
\* pass: when it holds main returns the document unchanged without calling the
\* extractor; when it does not, every pass runs, also once a pass has attached a table
C5_GuardEvaluatedOncePerInvocation ==
    /\ [][(invocation' # invocation /\ HasTables(doc)) =>
            /\ pc' = "returned"
            /\ calls' = <<>>
            /\ doc' = doc]_vars
    /\ [][(invocation' # invocation /\ ~HasTables(doc) /\ last' # "no-input") =>
            pc' = "loop"]_vars
    /\ [][pc = "loop" =>
            /\ Len(calls') = Len(calls) + 1
            /\ last' \in {"ok", "failed", "unparseable", "malformed"}]_vars

\* two passes of one invocation attached tables to two different pages
C5_Witness ==
    /\ pc = "returned"
    /\ \E a, b \in Range(attached) : a.pass = 0 /\ b.pass = 1 /\ a.page # b.page

\* C6 as stated: a later pass does not attach to a page a second table for a region
\* an earlier pass of the invocation already turned into an attached table
C6_NoSecondTableForSameRegion ==
    \A a, b \in Range(attached) :
        (a.page = b.page /\ a.box = b.box) => a.pass = b.pass

\* C6 amended: a pass that runs while a page already holds a table is not skipped:
\* the extractor is called for it, the tables the pages hold stay, and what the pass
\* attaches is appended to them
C6_LaterPassIsNotSkipped ==
    [][(pc = "loop" /\ HasTables(doc)) =>
          /\ calls' = Append(calls, configIndex)
          /\ last' \in {"ok", "failed", "unparseable", "malformed"}
          /\ \A p \in DOMAIN doc.pages :
                LET old == TablesOfPage(doc.pages[p])
                    new == TablesOfPage(doc'.pages[p])
                IN  /\ Len(new) >= Len(old)
                    /\ SubSeq(new, 1, Len(old)) = old]_vars

\* two passes of one invocation attached a table for the same region of the same page
C6_Witness ==
    \E a, b \in Range(attached) :
        a.pass = 0 /\ b.pass = 1 /\ a.page = b.page /\ a.box = b.box

====
